---- MODULE Spec2Model ----
(***************************************************************************)
(* lutrainit: the service supervision engine (StartServices, Service.Start, *)
(* Service.StartSimple, the liveness prober, CheckAndStartService and       *)
(* CheckAndStopService) as a state machine over the service registry.       *)
(***************************************************************************)
EXTENDS Integers, Sequences, FiniteSets, TLC

VARIABLES
    LoadedServices,   \* registry: service name -> Service record
    StartupServices,  \* capability -> sequence of names of the services providing it
    startedTypes,     \* StartServices' local set of capabilities marked started
    boot,             \* position of StartServices: "init", "waiting" (wg.Wait) or "done"
    wg,               \* the WaitGroup counter of StartServices
    units,            \* the launcher goroutines of StartServices, one per (capability, provider)
    runs,             \* the goroutines running Service.StartSimple, in spawn order
    ctl,              \* the control handler running CheckAndStartService / CheckAndStopService
    nops,             \* how many control operations were issued so far
    now,              \* time.Now().UTC().Unix()
    execs,            \* per service: how many times its Startup command was handed to exec
    marks,            \* per service: how many times the capability-mark step ran for it
    startErr,         \* the last completed call of Service.Start: what cmd.Run returned
                      \* to it (run) and what it returned (err)
    ctlRet            \* the last completed control operation: what the shutdown command
                      \* returned to it (run) and what it returned (err)

vars == <<LoadedServices, StartupServices, startedTypes, boot, wg, units, runs, ctl,
          nops, now, execs, marks, startErr, ctlRet>>

-----------------------------------------------------------------------------
(* Bounds of the model *)

\* the clock stops advancing at MaxTime
MaxTime == 1
\* the number of control operations issued over one behaviour
MaxOps == 2

-----------------------------------------------------------------------------
(* Constants of the program *)

errWaitNoChild == "wait: no child processes"
errWaitIDNoChild == "waitid: no child processes"

NotStarted == "NotStarted"
Starting == "Starting"
Started == "Started"
Stopped == "Stopped"
Errored == "Errored"

RunStateString(rs) ==
    CASE rs = NotStarted -> "not started"
      [] rs = Starting -> "being started"
      [] rs = Started -> "already started"
      [] rs = Stopped -> "stopped"
      [] rs = Errored -> "errored"
      [] OTHER -> "in an invalid state"

Unknown == "Unknown"
Start == "Start"
Stop == "Stop"

\* the polls of the dependency wait loop
MaxTries == 60

\* a nil error
NoError == "<nil>"

\* no command was run
NotRun == "<not run>"

-----------------------------------------------------------------------------
(* Service definitions as the config loader hands them over *)

Service(name, auto, provides, needs, type, pidfile, startup, shutdown, checkalive) ==
    [Name |-> name, AutoStart |-> auto, Provides |-> provides, Needs |-> needs,
     State |-> NotStarted, LastAction |-> Unknown, LastActionAt |-> 0,
     LastMessage |-> "", LastKnownPID |-> 0,
     Type |-> type, PIDFile |-> pidfile,
     Startup |-> startup, Shutdown |-> shutdown, CheckAlive |-> checkalive]

\* A provides net and runs to completion, B needs net and provides nothing
FilesNet ==
    << Service("A", TRUE, <<"net">>, <<>>, "oneshot", "", "ifup", "", ""),
       Service("B", TRUE, <<>>, <<"net">>, "simple", "", "httpd", "", "") >>

\* a chain: B needs what A provides, and provides a capability itself
FilesChain ==
    << Service("A", TRUE, <<"net">>, <<>>, "oneshot", "", "ifup", "ifdown", ""),
       Service("B", TRUE, <<"web">>, <<"net">>, "simple", "", "httpd", "", "") >>

\* one service providing two capabilities
FilesMulti ==
    << Service("M", TRUE, <<"net", "dns">>, <<>>, "simple", "", "netd", "netd -k", "") >>

\* W needs a capability nobody provides; P is not started at boot; U has no known type
FilesOrphan ==
    << Service("W", TRUE, <<"app">>, <<"ghost">>, "forking", "/run/w.pid", "w -d", "w -k", ""),
       Service("P", FALSE, <<"db">>, <<>>, "oneshot", "", "dbinit", "", "db-alive"),
       Service("U", TRUE, <<"misc">>, <<>>, "", "", "u", "", "") >>

\* a dependency cycle
FilesCycle ==
    << Service("X", TRUE, <<"x">>, <<"y">>, "oneshot", "", "x", "", ""),
       Service("Y", TRUE, <<"y">>, <<"x">>, "simple", "", "y", "", "") >>

\* a forking service with a PIDFile, listed under two capabilities
FilesForking ==
    << Service("D", TRUE, <<"log", "syslog">>, <<>>, "forking", "/run/d.pid", "d", "d -k", "") >>

\* a forking service with a PIDFile and a Shutdown command
FilesDaemon ==
    << Service("D", TRUE, <<"log">>, <<>>, "forking", "/run/d.pid", "d", "d -k", "") >>

\* the registries boot orchestration is explored on
BootConfigs == {FilesNet, FilesChain, FilesMulti, FilesOrphan, FilesCycle, FilesForking}

\* a simple service without Shutdown, PIDFile or CheckAlive
FilesSimple ==
    << Service("S", TRUE, <<"web">>, <<>>, "simple", "", "httpd", "", "") >>

\* a simple service with a Shutdown and a CheckAlive command, not started at boot
FilesTracked ==
    << Service("T", FALSE, <<>>, <<>>, "simple", "", "cron", "cron -k", "cron-alive") >>

\* a oneshot service with a CheckAlive command and no Shutdown, not started at boot
FilesOneshot ==
    << Service("E", FALSE, <<"db">>, <<>>, "oneshot", "", "dbinit", "", "db-alive") >>

\* a service whose type is none of the three and whose liveness nothing can tell
FilesUntyped ==
    << Service("U", TRUE, <<"misc">>, <<>>, "", "", "u", "u -k", "") >>

\* a forking service without PIDFile, CheckAlive or Shutdown, not started at boot
FilesBare ==
    << Service("F", FALSE, <<>>, <<>>, "forking", "", "f -d", "", "") >>

\* the registries the control operations are explored on
Configs == {FilesSimple, FilesTracked, FilesDaemon, FilesOneshot, FilesUntyped, FilesBare}

Range(s) == {s[i] : i \in 1..Len(s)}

NamesOf(files) == {files[i].Name : i \in 1..Len(files)}

CapsOf(files) ==
    UNION {Range(files[i].Provides) \cup Range(files[i].Needs) : i \in 1..Len(files)}

-----------------------------------------------------------------------------
(* The config loader: the registry and the capability index *)

\* the names of the services of files, once per capability t they list under Provides
RECURSIVE ProvidersOf(_, _)
ProvidersOf(files, t) ==
    IF files = <<>> THEN <<>>
    ELSE LET s == Head(files)
             own == SelectSeq(s.Provides, LAMBDA p : p = t)
         IN  [i \in 1..Len(own) |-> s.Name] \o ProvidersOf(Tail(files), t)

ParseServiceConfigs_Startup(files) ==
    [t \in CapsOf(files) |-> ProvidersOf(files, t)]

ParseServiceConfigs_Loaded(files) ==
    [n \in NamesOf(files) |->
        files[CHOOSE i \in 1..Len(files) : files[i].Name = n /\
            \A j \in 1..Len(files) : files[j].Name = n => j <= i] ]

-----------------------------------------------------------------------------
(* Service.Start: run a oneshot or forking service to completion *)

\* Start without its state guard
StartRefusesNever(state) == FALSE

\* the state guard of Start, on the receiver's copy of the record
StartRefuses(state) == state # NotStarted

StartRefusal(name, state) == "Service " \o name \o " is " \o RunStateString(state)

\* the registry writes made before the command is run
StartBegin(LS, n, t) ==
    [LS EXCEPT ![n].State = Starting, ![n].LastActionAt = t, ![n].LastAction = Start]

\* only the first of the two strings is recognised
IsNoChildWaitOnly(err) == err = errWaitNoChild

\* a wait error that means the daemonizing child was already reaped
IsNoChild(err) == err = errWaitNoChild \/ err = errWaitIDNoChild

\* the registry writes made once cmd.Run has returned err
StartFinish(LS, n, err, t) ==
    IF err = NoError \/ IsNoChild(err)
    THEN [LS EXCEPT ![n].State = Started, ![n].LastActionAt = t, ![n].LastAction = Start]
    ELSE [LS EXCEPT ![n].State = Errored, ![n].LastActionAt = t, ![n].LastAction = Start]

\* what Start returns once cmd.Run has returned err
StartResult(err) == IF err = NoError \/ IsNoChild(err) THEN NoError ELSE err

\* what cmd.Run can return for a Startup command
RunErrors ==
    {NoError, errWaitNoChild, errWaitIDNoChild, "exit status 1", "wait4: no child processes"}

-----------------------------------------------------------------------------
(* Service.StartSimple: launch a simple service and track its process *)

\* the pid the OS gives the process of the r-th StartSimple goroutine
PidOf(r) == 100 + r

SimpleBegin(LS, n, t) ==
    [LS EXCEPT ![n].State = Starting, ![n].LastActionAt = t, ![n].LastAction = Start,
               ![n].LastKnownPID = 0]

SimpleLaunchFailed(LS, n, err) ==
    [LS EXCEPT ![n].State = Errored, ![n].LastMessage = err, ![n].LastKnownPID = 0]

SimpleLaunched(LS, n, pid) ==
    [LS EXCEPT ![n].State = Started, ![n].LastKnownPID = pid]

\* the exit puts the record back to its initial state
SimpleExitedReset(LS, n, err, t) ==
    [LS EXCEPT ![n].State = NotStarted, ![n].LastKnownPID = 0]

\* the registry writes made once cmd.Wait has returned err
SimpleExited(LS, n, err, t) ==
    IF err # NoError
    THEN [LS EXCEPT ![n].State = Stopped, ![n].LastMessage = err, ![n].LastKnownPID = 0]
    ELSE [LS EXCEPT ![n].State = Stopped, ![n].LastKnownPID = 0,
                    ![n].LastActionAt = t, ![n].LastAction = Stop]

\* what cmd.Start can return
LaunchErrors == {NoError, "fork/exec /bin/sh: no such file or directory"}

\* what cmd.Wait can return
WaitErrors == {NoError, "exit status 1", "signal: terminated"}

-----------------------------------------------------------------------------
(* The liveness prober *)

IsSpace(c) == c \in {" ", "\t", "\n", "\r"}

\* bytes.TrimSpace on a sequence of characters
RECURSIVE TrimLeft(_)
TrimLeft(d) == IF d # <<>> /\ IsSpace(Head(d)) THEN TrimLeft(Tail(d)) ELSE d

RECURSIVE TrimRight(_)
TrimRight(d) ==
    IF d # <<>> /\ IsSpace(d[Len(d)]) THEN TrimRight(SubSeq(d, 1, Len(d) - 1)) ELSE d

TrimSpace(d) == TrimRight(TrimLeft(d))

Digits == <<"0", "1", "2", "3", "4", "5", "6", "7", "8", "9">>

DigitValue(c) == (CHOOSE i \in 1..10 : Digits[i] = c) - 1

RECURSIVE DigitsValue(_, _)
DigitsValue(d, acc) ==
    IF d = <<>> THEN acc ELSE DigitsValue(Tail(d), 10 * acc + DigitValue(Head(d)))

\* strconv.Atoi: an optional sign and at least one digit, nothing else
Atoi(d) ==
    LET signed == d # <<>> /\ Head(d) \in {"+", "-"}
        body == IF signed THEN Tail(d) ELSE d
    IN  IF body = <<>> \/ \E i \in 1..Len(body) : body[i] \notin Range(Digits)
        THEN [ok |-> FALSE, n |-> 0]
        ELSE [ok |-> TRUE,
              n |-> IF signed /\ Head(d) = "-" THEN 0 - DigitsValue(body, 0)
                    ELSE DigitsValue(body, 0)]

\* what the prober can find at the path PIDFile: no file, or a file with this content
NoFile == <<"<no file>">>
PidFiles == {NoFile, <<"a", "b", "c">>, <<" ", " ", "9", "9", "9", "\n">>, <<"0", "\n">>}

getProcessPid(s, file) ==
    LET r == Atoi(TrimSpace(file))
    IN  IF r.ok THEN [pid |-> r.n, err |-> NoError]
        ELSE [pid |-> 0, err |-> "error parsing pid from: " \o s.PIDFile]

\* what ps.FindProcess can answer: a process, no process (nil, nil) or an error
FindResults == {"found", "notfound", "error"}

processAliveByPid(pid, find) ==
    IF pid = 0
    THEN [alive |-> FALSE, err |-> "why are you asking me if PID 0 is alive ?"]
    ELSE IF find = "error"
         THEN [alive |-> FALSE, err |-> "failed to read the process table"]
         ELSE [alive |-> TRUE, err |-> NoError]

\* an error of cmd.Run that is an *exec.ExitError: the command ran and exited non-zero
IsExitError(err) == err = "exit status 1"

\* what cmd.Run can return for a CheckAlive or Shutdown command
CmdErrors == {NoError, "exit status 1", "fork/exec /bin/sh: no such file or directory"}

processAliveByCmd(err) ==
    IF err # NoError THEN [alive |-> FALSE, err |-> err]
    ELSE IF IsExitError(err) THEN [alive |-> FALSE, err |-> NoError]
    ELSE [alive |-> TRUE, err |-> NoError]

ExecShutdown(err) ==
    IF err # NoError THEN err
    ELSE IF IsExitError(err) THEN NoError
    ELSE NoError

\* the prober guesses that the service is alive
IndeterminateGuess == [alive |-> TRUE, pid |-> 0, err |-> NoError]

\* the answer when nothing tells whether the service is alive
Indeterminate == [alive |-> TRUE, pid |-> 0, err |-> "cannot determine process state"]

checkIfProcessAlive(s, file, find, cmdErr) ==
    IF s.PIDFile # ""
    THEN IF file = NoFile
         THEN [alive |-> FALSE, pid |-> 0, err |-> NoError]
         ELSE LET p == getProcessPid(s, file)
              IN  IF p.err # NoError
                  THEN [alive |-> FALSE, pid |-> 0, err |-> p.err]
                  ELSE LET a == processAliveByPid(p.pid, find)
                       IN  IF a.err # NoError
                           THEN [alive |-> FALSE, pid |-> 0, err |-> a.err]
                           ELSE [alive |-> a.alive, pid |-> p.pid, err |-> NoError]
    ELSE IF s.CheckAlive # ""
    THEN LET a == processAliveByCmd(cmdErr)
         IN  IF a.err # NoError
             THEN [alive |-> FALSE, pid |-> 0, err |-> a.err]
             ELSE [alive |-> a.alive, pid |-> 0, err |-> NoError]
    ELSE IF s.Type = "simple"
    THEN [alive |-> s.State = Started, pid |-> 0, err |-> NoError]
    ELSE Indeterminate

\* what the prober can meet when it probes s: the file at PIDFile and the process
\* table when PIDFile is set, else the CheckAlive command when there is one
ProbeInputs(s) ==
    IF s.PIDFile # ""
    THEN {[file |-> f, find |-> g, cmdErr |-> NotRun] : f \in PidFiles, g \in FindResults}
         \ {e \in [file : PidFiles, find : FindResults, cmdErr : {NotRun}] :
               e.find # "notfound" /\ (e.file = NoFile \/ getProcessPid(s, e.file).pid = 0)}
    ELSE IF s.CheckAlive # ""
    THEN {[file |-> NoFile, find |-> "notfound", cmdErr |-> e] : e \in CmdErrors}
    ELSE {[file |-> NoFile, find |-> "notfound", cmdErr |-> NotRun]}

AlreadyRunning(name, pid) ==
    IF pid # 0
    THEN "process " \o name \o " already running as PID " \o ToString(pid)
    ELSE "process " \o name \o " already running"

CtlIdle ==
    [pc |-> "idle", op |-> "", svc |-> "", snap |-> NotStarted, cmd |-> "",
     env |-> [file |-> NoFile, find |-> "notfound", cmdErr |-> NotRun],
     res |-> [alive |-> FALSE, pid |-> 0, err |-> NoError]]

-----------------------------------------------------------------------------
(* StartServices: the launcher goroutines *)

\* the test of the loop inverted
NeedsSatisfiedInverted(s, started) == \A i \in 1..Len(s.Needs) : s.Needs[i] \notin started

NeedsSatisfied(s, started) == \A i \in 1..Len(s.Needs) : s.Needs[i] \in started

\* one goroutine per entry of every list of the capability index
RECURSIVE UnitsOf(_, _)
UnitsOf(index, caps) ==
    IF caps = {} THEN <<>>
    ELSE LET t == CHOOSE c \in caps : TRUE
         IN  [i \in 1..Len(index[t]) |->
                 [svc |-> index[t][i], pc |-> "wait", tries |-> 0, satisfied |-> FALSE,
                  snap |-> NotStarted]]
             \o UnitsOf(index, caps \ {t})

InitOn(configs) ==
    /\ \E files \in configs :
          /\ LoadedServices = ParseServiceConfigs_Loaded(files)
          /\ StartupServices = ParseServiceConfigs_Startup(files)
          /\ execs = [n \in NamesOf(files) |-> 0]
          /\ marks = [n \in NamesOf(files) |-> 0]
    /\ startedTypes = {}
    /\ boot = "init"
    /\ wg = 0
    /\ units = <<>>
    /\ runs = <<>>
    /\ ctl = CtlIdle
    /\ nops = 0
    /\ now = 0
    /\ startErr = [svc |-> "", run |-> NotRun, err |-> NoError]
    /\ ctlRet = [op |-> "", svc |-> "", run |-> NotRun, err |-> NoError]

Init == InitOn(Configs)

InitBoot == InitOn(BootConfigs)

\* the loops of StartServices: wg.Add and one go statement per provider entry
StartServices ==
    /\ boot = "init"
    /\ units' = UnitsOf(StartupServices, DOMAIN StartupServices)
    /\ wg' = Len(units')
    /\ boot' = "waiting"
    /\ UNCHANGED <<LoadedServices, StartupServices, startedTypes, runs, ctl, nops, now,
                   execs, marks, startErr, ctlRet>>

\* the wait loop without its bound on tries
PollAgainUnbounded(satisfied, tries) == satisfied = FALSE

\* the condition of the dependency wait loop
PollAgain(satisfied, tries) == satisfied = FALSE /\ tries < MaxTries

\* one iteration of the dependency wait loop
Poll(u) ==
    /\ units[u].pc = "wait"
    /\ LET sat == NeedsSatisfied(LoadedServices[units[u].svc], startedTypes)
           n == units[u].tries + 1
       IN  units' = [units EXCEPT ![u].satisfied = sat, ![u].tries = n,
                        ![u].pc = IF PollAgain(sat, n) THEN "wait" ELSE "check"]
    /\ UNCHANGED <<LoadedServices, StartupServices, startedTypes, boot, wg, runs, ctl,
                   nops, now, execs, marks, startErr, ctlRet>>

\* the test that gates the start of the service
LaunchWanted(s) == s.State = NotStarted /\ s.AutoStart

\* the service is not to be started: straight to the capability-mark step
LaunchSkip(u) ==
    /\ units[u].pc = "check"
    /\ ~LaunchWanted(LoadedServices[units[u].svc])
    /\ units' = [units EXCEPT ![u].pc = "mark"]
    /\ UNCHANGED <<LoadedServices, StartupServices, startedTypes, boot, wg, runs, ctl,
                   nops, now, execs, marks, startErr, ctlRet>>

\* oneshot or forking: the launcher goes on to call s.Start()
LaunchStart(u) ==
    /\ units[u].pc = "check"
    /\ LaunchWanted(LoadedServices[units[u].svc])
    /\ LoadedServices[units[u].svc].Type \in {"oneshot", "forking"}
    /\ units' = [units EXCEPT ![u].pc = "call"]
    /\ UNCHANGED <<LoadedServices, StartupServices, startedTypes, boot, wg, runs, ctl,
                   nops, now, execs, marks, startErr, ctlRet>>

\* simple: go s.StartSimple()
LaunchSimple(u) ==
    /\ units[u].pc = "check"
    /\ LaunchWanted(LoadedServices[units[u].svc])
    /\ LoadedServices[units[u].svc].Type = "simple"
    /\ runs' = Append(runs, [svc |-> units[u].svc, pc |-> "spawned", pid |-> 0, stop |-> FALSE])
    /\ units' = [units EXCEPT ![u].pc = "mark"]
    /\ UNCHANGED <<LoadedServices, StartupServices, startedTypes, boot, wg, ctl,
                   nops, now, execs, marks, startErr, ctlRet>>

\* any other type: a warning and nothing else
LaunchUnknownType(u) ==
    /\ units[u].pc = "check"
    /\ LaunchWanted(LoadedServices[units[u].svc])
    /\ LoadedServices[units[u].svc].Type \notin {"oneshot", "forking", "simple"}
    /\ units' = [units EXCEPT ![u].pc = "mark"]
    /\ UNCHANGED <<LoadedServices, StartupServices, startedTypes, boot, wg, runs, ctl,
                   nops, now, execs, marks, startErr, ctlRet>>

\* s.Start() has a value receiver: the call copies the registry record
UnitStartCall(u) ==
    /\ units[u].pc = "call"
    /\ units' = [units EXCEPT ![u].pc = "guard",
                              ![u].snap = LoadedServices[units[u].svc].State]
    /\ UNCHANGED <<LoadedServices, StartupServices, startedTypes, boot, wg, runs, ctl,
                   nops, now, execs, marks, startErr, ctlRet>>

\* Start refuses the copy's state: the error is logged by the launcher
UnitStartRefused(u) ==
    /\ units[u].pc = "guard"
    /\ StartRefuses(units[u].snap)
    /\ startErr' = [svc |-> units[u].svc, run |-> NotRun,
                    err |-> StartRefusal(units[u].svc, units[u].snap)]
    /\ units' = [units EXCEPT ![u].pc = "mark"]
    /\ UNCHANGED <<LoadedServices, StartupServices, startedTypes, boot, wg, runs, ctl,
                   nops, now, execs, marks, ctlRet>>

\* Start passes its guard, stamps the registry and runs the Startup command
UnitStartBegin(u) ==
    /\ units[u].pc = "guard"
    /\ ~StartRefuses(units[u].snap)
    /\ LoadedServices' = StartBegin(LoadedServices, units[u].svc, now)
    /\ execs' = [execs EXCEPT ![units[u].svc] = @ + 1]
    /\ units' = [units EXCEPT ![u].pc = "run", ![u].snap = Starting]
    /\ UNCHANGED <<StartupServices, startedTypes, boot, wg, runs, ctl,
                   nops, now, marks, startErr, ctlRet>>

\* cmd.Run returns
UnitStartEnd(u) ==
    /\ units[u].pc = "run"
    /\ \E err \in RunErrors :
          /\ LoadedServices' = StartFinish(LoadedServices, units[u].svc, err, now)
          /\ startErr' = [svc |-> units[u].svc, run |-> err, err |-> StartResult(err)]
    /\ units' = [units EXCEPT ![u].pc = "mark"]
    /\ UNCHANGED <<StartupServices, startedTypes, boot, wg, runs, ctl,
                   nops, now, execs, marks, ctlRet>>

\* the capability-mark step and wg.Done
Mark(u) ==
    /\ units[u].pc = "mark"
    /\ startedTypes' = startedTypes \cup Range(LoadedServices[units[u].svc].Provides)
    /\ marks' = [marks EXCEPT ![units[u].svc] = @ + 1]
    /\ wg' = wg - 1
    /\ units' = [units EXCEPT ![u].pc = "done"]
    /\ UNCHANGED <<LoadedServices, StartupServices, boot, runs, ctl,
                   nops, now, execs, startErr, ctlRet>>

\* wg.Wait returns
Join ==
    /\ boot = "waiting"
    /\ wg = 0
    /\ boot' = "done"
    /\ UNCHANGED <<LoadedServices, StartupServices, startedTypes, wg, units, runs, ctl,
                   nops, now, execs, marks, startErr, ctlRet>>

-----------------------------------------------------------------------------
(* The goroutines running StartSimple *)

RunBegin(r) ==
    /\ runs[r].pc = "spawned"
    /\ LoadedServices' = SimpleBegin(LoadedServices, runs[r].svc, now)
    /\ runs' = [runs EXCEPT ![r].pc = "launch"]
    /\ UNCHANGED <<StartupServices, startedTypes, boot, wg, units, ctl,
                   nops, now, execs, marks, startErr, ctlRet>>

\* cmd.Start returns
RunLaunch(r) ==
    /\ runs[r].pc = "launch"
    /\ execs' = [execs EXCEPT ![runs[r].svc] = @ + 1]
    /\ \E err \in LaunchErrors :
          IF err # NoError
          THEN /\ LoadedServices' = SimpleLaunchFailed(LoadedServices, runs[r].svc, err)
               /\ runs' = [runs EXCEPT ![r].pc = "done"]
          ELSE /\ LoadedServices' = SimpleLaunched(LoadedServices, runs[r].svc, PidOf(r))
               /\ runs' = [runs EXCEPT ![r].pc = "tracking", ![r].pid = PidOf(r)]
    /\ UNCHANGED <<StartupServices, startedTypes, boot, wg, units, ctl,
                   nops, now, marks, startErr, ctlRet>>

\* the tracked process exits and cmd.Wait returns
RunExit(r) ==
    /\ runs[r].pc = "tracking"
    /\ \E err \in WaitErrors :
          LoadedServices' = SimpleExited(LoadedServices, runs[r].svc, err, now)
    /\ runs' = [runs EXCEPT ![r].pc = "done", ![r].stop = FALSE]
    /\ UNCHANGED <<StartupServices, startedTypes, boot, wg, units, ctl,
                   nops, now, execs, marks, startErr, ctlRet>>

-----------------------------------------------------------------------------
(* CheckAndStartService *)

\* the handler takes a control operation: it serves one at a time, once
\* StartServices has spawned its launchers
ControlReady == ctl.pc = "idle" /\ boot # "init" /\ nops < MaxOps

\* checkIfProcessAlive returns: the handler holds what the prober saw and answered
CheckAndStartProbe(n) ==
    /\ ControlReady
    /\ \E env \in ProbeInputs(LoadedServices[n]) :
          ctl' = [CtlIdle EXCEPT !.pc = "probed", !.op = "CheckAndStart", !.svc = n,
                     !.env = env,
                     !.res = checkIfProcessAlive(LoadedServices[n], env.file, env.find,
                                                 env.cmdErr)]
    /\ nops' = nops + 1
    /\ UNCHANGED <<LoadedServices, StartupServices, startedTypes, boot, wg, units, runs,
                   now, execs, marks, startErr, ctlRet>>

\* the prober failed: its error is returned
CheckAndStartProbeError ==
    /\ ctl.pc = "probed"
    /\ ctl.res.err # NoError
    /\ ctlRet' = [op |-> "CheckAndStart", svc |-> ctl.svc, run |-> NotRun,
                  err |-> ctl.res.err]
    /\ ctl' = CtlIdle
    /\ UNCHANGED <<LoadedServices, StartupServices, startedTypes, boot, wg, units, runs,
                   nops, now, execs, marks, startErr>>

\* only an answer with a pid makes it refuse
StartBlockedWithPid(res) == res.alive /\ res.pid # 0

\* the answer of the prober that makes CheckAndStartService refuse to start
StartBlocked(res) == res.alive

\* the prober reports the service alive
CheckAndStartAlive ==
    /\ ctl.pc = "probed"
    /\ ctl.res.err = NoError
    /\ StartBlocked(ctl.res)
    /\ ctlRet' = [op |-> "CheckAndStart", svc |-> ctl.svc, run |-> NotRun,
                  err |-> AlreadyRunning(ctl.svc, ctl.res.pid)]
    /\ ctl' = CtlIdle
    /\ UNCHANGED <<LoadedServices, StartupServices, startedTypes, boot, wg, units, runs,
                   nops, now, execs, marks, startErr>>

\* not alive, simple: go s.StartSimple()
CheckAndStartSimple ==
    /\ ctl.pc = "probed"
    /\ ctl.res.err = NoError
    /\ ~StartBlocked(ctl.res)
    /\ LoadedServices[ctl.svc].Type = "simple"
    /\ runs' = Append(runs, [svc |-> ctl.svc, pc |-> "spawned", pid |-> 0, stop |-> FALSE])
    /\ ctlRet' = [op |-> "CheckAndStart", svc |-> ctl.svc, run |-> NotRun, err |-> NoError]
    /\ ctl' = CtlIdle
    /\ UNCHANGED <<LoadedServices, StartupServices, startedTypes, boot, wg, units,
                   nops, now, execs, marks, startErr>>

\* not alive, any other type: s.Start(), whose receiver is a copy of the record
CheckAndStartCall ==
    /\ ctl.pc = "probed"
    /\ ctl.res.err = NoError
    /\ ~StartBlocked(ctl.res)
    /\ LoadedServices[ctl.svc].Type # "simple"
    /\ ctl' = [ctl EXCEPT !.pc = "guard", !.snap = LoadedServices[ctl.svc].State]
    /\ UNCHANGED <<LoadedServices, StartupServices, startedTypes, boot, wg, units, runs,
                   nops, now, execs, marks, startErr, ctlRet>>

\* Start refuses the copy's state; CheckAndStartService drops the error and returns nil
CtlStartRefused ==
    /\ ctl.pc = "guard"
    /\ StartRefuses(ctl.snap)
    /\ startErr' = [svc |-> ctl.svc, run |-> NotRun,
                    err |-> StartRefusal(ctl.svc, ctl.snap)]
    /\ ctlRet' = [op |-> "CheckAndStart", svc |-> ctl.svc, run |-> NotRun, err |-> NoError]
    /\ ctl' = CtlIdle
    /\ UNCHANGED <<LoadedServices, StartupServices, startedTypes, boot, wg, units, runs,
                   nops, now, execs, marks>>

CtlStartBegin ==
    /\ ctl.pc = "guard"
    /\ ~StartRefuses(ctl.snap)
    /\ LoadedServices' = StartBegin(LoadedServices, ctl.svc, now)
    /\ execs' = [execs EXCEPT ![ctl.svc] = @ + 1]
    /\ ctl' = [ctl EXCEPT !.pc = "run", !.snap = Starting]
    /\ UNCHANGED <<StartupServices, startedTypes, boot, wg, units, runs,
                   nops, now, marks, startErr, ctlRet>>

\* cmd.Run returns; CheckAndStartService drops what Start returns and returns nil
CtlStartEnd ==
    /\ ctl.pc = "run"
    /\ \E err \in RunErrors :
          /\ LoadedServices' = StartFinish(LoadedServices, ctl.svc, err, now)
          /\ startErr' = [svc |-> ctl.svc, run |-> err, err |-> StartResult(err)]
    /\ ctlRet' = [op |-> "CheckAndStart", svc |-> ctl.svc, run |-> NotRun, err |-> NoError]
    /\ ctl' = CtlIdle
    /\ UNCHANGED <<StartupServices, startedTypes, boot, wg, units, runs,
                   nops, now, execs, marks>>

-----------------------------------------------------------------------------
(* CheckAndStopService *)

\* no stamp is made
StopStampNone(LS, n, t) == LS

\* the stamp made whatever follows
StopStamp(LS, n, t) == [LS EXCEPT ![n].LastActionAt = t, ![n].LastAction = Stop]

\* no fallback on the pid
SimpleStopCommandNoPid(s) == s.Shutdown

\* the command handed to ExecShutdown for a simple service
SimpleStopCommand(s) ==
    IF s.Shutdown # "" THEN s.Shutdown ELSE "pkill " \o ToString(s.LastKnownPID)

\* the StartSimple goroutines of n learn nothing of the call: the model notes on
\* those still running that a stop of n was requested
StopRequested(rs, n) ==
    [r \in 1..Len(rs) |->
        IF rs[r].svc = n /\ rs[r].pc # "done" THEN [rs[r] EXCEPT !.stop = TRUE]
        ELSE rs[r]]

NotAlive(name) == "process " \o name \o " doesn't seems to be alive ?"

NoShutdown(name) ==
    "no Shutdown: command defined for " \o name \o ", I don't know how to kill it"

\* a simple service that is neither Starting nor Started
CheckAndStopNotAlive(n) ==
    /\ ControlReady
    /\ LoadedServices[n].Type = "simple"
    /\ LoadedServices[n].State \notin {Starting, Started}
    /\ LoadedServices' = [StopStamp(LoadedServices, n, now) EXCEPT ![n].State = Stopped]
    /\ ctlRet' = [op |-> "CheckAndStop", svc |-> n, run |-> NotRun, err |-> NotAlive(n)]
    /\ nops' = nops + 1
    /\ runs' = StopRequested(runs, n)
    /\ UNCHANGED <<StartupServices, startedTypes, boot, wg, units,
                   ctl, now, execs, marks, startErr>>

\* a service of another type without a Shutdown command
CheckAndStopNoCommand(n) ==
    /\ ControlReady
    /\ LoadedServices[n].Type # "simple"
    /\ LoadedServices[n].Shutdown = ""
    /\ LoadedServices' = [StopStamp(LoadedServices, n, now) EXCEPT ![n].State = Errored]
    /\ ctlRet' = [op |-> "CheckAndStop", svc |-> n, run |-> NotRun, err |-> NoShutdown(n)]
    /\ nops' = nops + 1
    /\ runs' = StopRequested(runs, n)
    /\ UNCHANGED <<StartupServices, startedTypes, boot, wg, units,
                   ctl, now, execs, marks, startErr>>

\* ExecShutdown is entered: the command runs
CheckAndStopExec(n) ==
    /\ ControlReady
    /\ IF LoadedServices[n].Type = "simple"
       THEN LoadedServices[n].State \in {Starting, Started}
       ELSE LoadedServices[n].Shutdown # ""
    /\ LoadedServices' = StopStamp(LoadedServices, n, now)
    /\ ctl' = [CtlIdle EXCEPT !.pc = "shutdown", !.op = "CheckAndStop", !.svc = n,
                  !.cmd = IF LoadedServices[n].Type = "simple"
                          THEN SimpleStopCommand(LoadedServices[n])
                          ELSE LoadedServices[n].Shutdown]
    /\ nops' = nops + 1
    /\ runs' = StopRequested(runs, n)
    /\ UNCHANGED <<StartupServices, startedTypes, boot, wg, units,
                   now, execs, marks, startErr, ctlRet>>

\* the registry write that follows ExecShutdown returning err
StopFinish(LS, n, err) ==
    IF err # NoError THEN [LS EXCEPT ![n].State = Errored]
    ELSE [LS EXCEPT ![n].State = Stopped]

\* cmd.Run of the shutdown command returns
CheckAndStopEnd ==
    /\ ctl.pc = "shutdown"
    /\ \E cmdErr \in CmdErrors :
          /\ LoadedServices' = StopFinish(LoadedServices, ctl.svc, ExecShutdown(cmdErr))
          /\ ctlRet' = [op |-> "CheckAndStop", svc |-> ctl.svc, run |-> cmdErr,
                        err |-> ExecShutdown(cmdErr)]
    /\ ctl' = CtlIdle
    /\ UNCHANGED <<StartupServices, startedTypes, boot, wg, units, runs,
                   nops, now, execs, marks, startErr>>

-----------------------------------------------------------------------------
(* ParseServiceConfigs called again with reloading set *)

\* the service files of the directory: those the registry was loaded from
ReadDir(LS) ==
    CHOOSE files \in Configs \cup BootConfigs :
        /\ NamesOf(files) = DOMAIN LS
        /\ \A i \in 1..Len(files) :
               files[i] = [LS[files[i].Name] EXCEPT
                              !.State = NotStarted, !.LastAction = Unknown,
                              !.LastActionAt = 0, !.LastMessage = "", !.LastKnownPID = 0]

\* the registry once every file was parsed again: each entry is assigned a new
\* record, whose State, LastAction and LastActionAt are left at their zero values
ParseServiceConfigs_Reloaded(LS, files) ==
    [n \in DOMAIN LS \cup NamesOf(files) |->
        IF n \in NamesOf(files)
        THEN [ParseServiceConfigs_Loaded(files)[n] EXCEPT
                 !.State = NotStarted, !.LastAction = Unknown, !.LastActionAt = 0]
        ELSE LS[n]]

\* the capability index once every file was parsed again: its lists are appended to
ParseServiceConfigs_Appended(index, files) ==
    [t \in DOMAIN index \cup CapsOf(files) |->
        (IF t \in DOMAIN index THEN index[t] ELSE <<>>) \o ProvidersOf(files, t)]

\* a reload, taken by the handler once StartServices has returned
Reload ==
    /\ ControlReady
    /\ boot = "done"
    /\ LET files == ReadDir(LoadedServices)
       IN  /\ LoadedServices' = ParseServiceConfigs_Reloaded(LoadedServices, files)
           /\ StartupServices' = ParseServiceConfigs_Appended(StartupServices, files)
    /\ ctlRet' = [op |-> "Reload", svc |-> "", run |-> NotRun, err |-> NoError]
    /\ nops' = nops + 1
    /\ UNCHANGED <<startedTypes, boot, wg, units, runs, ctl, now, execs, marks, startErr>>

-----------------------------------------------------------------------------
(* The clock *)

Tick ==
    /\ now < MaxTime
    /\ now' = now + 1
    /\ UNCHANGED <<LoadedServices, StartupServices, startedTypes, boot, wg, units, runs,
                   ctl, nops, execs, marks, startErr, ctlRet>>

-----------------------------------------------------------------------------
(* The specification *)

\* boot orchestration and the services it starts, with no control operation
NextBoot ==
    \/ StartServices
    \/ \E u \in 1..Len(units) : Poll(u)
    \/ \E u \in 1..Len(units) : LaunchSkip(u)
    \/ \E u \in 1..Len(units) : LaunchStart(u)
    \/ \E u \in 1..Len(units) : LaunchSimple(u)
    \/ \E u \in 1..Len(units) : LaunchUnknownType(u)
    \/ \E u \in 1..Len(units) : UnitStartCall(u)
    \/ \E u \in 1..Len(units) : UnitStartRefused(u)
    \/ \E u \in 1..Len(units) : UnitStartBegin(u)
    \/ \E u \in 1..Len(units) : UnitStartEnd(u)
    \/ \E u \in 1..Len(units) : Mark(u)
    \/ Join
    \/ \E r \in 1..Len(runs) : RunBegin(r)
    \/ \E r \in 1..Len(runs) : RunLaunch(r)
    \/ \E r \in 1..Len(runs) : RunExit(r)
    \/ Tick

Control ==
    \/ \E n \in DOMAIN LoadedServices : CheckAndStartProbe(n)
    \/ CheckAndStartProbeError
    \/ CheckAndStartAlive
    \/ CheckAndStartSimple
    \/ CheckAndStartCall
    \/ CtlStartRefused
    \/ CtlStartBegin
    \/ CtlStartEnd
    \/ \E n \in DOMAIN LoadedServices : CheckAndStopNotAlive(n)
    \/ \E n \in DOMAIN LoadedServices : CheckAndStopNoCommand(n)
    \/ \E n \in DOMAIN LoadedServices : CheckAndStopExec(n)
    \/ CheckAndStopEnd

Next == NextBoot \/ Control

\* everything, on registries whose services need nothing
Spec == Init /\ [][Next]_vars

\* boot orchestration alone, on registries with dependencies
BootSpec == InitBoot /\ [][NextBoot]_vars

\* the steps of StartServices and of its launcher goroutines
BootStep ==
    \/ StartServices
    \/ \E u \in 1..Len(units) :
          \/ Poll(u) \/ LaunchSkip(u) \/ LaunchStart(u) \/ LaunchSimple(u)
          \/ LaunchUnknownType(u) \/ UnitStartCall(u) \/ UnitStartRefused(u)
          \/ UnitStartBegin(u) \/ UnitStartEnd(u) \/ Mark(u)
    \/ Join

\* the scheduler runs every runnable goroutine and every Startup command run by
\* Start returns; nothing makes a tracked process exit or the clock advance
BootFairSpec == BootSpec /\ WF_vars(BootStep)

NextReload == Next \/ Reload

\* everything, and reloads of the service directory
ReloadSpec == Init /\ [][NextReload]_vars

-----------------------------------------------------------------------------
(* Properties *)

Names == DOMAIN LoadedServices

UnitsFor(n) == {u \in 1..Len(units) : units[u].svc = n}

\* C1: a call of Start on a record whose state is not NotStarted returns an error
\* naming that state, leaves the registry record as it was and runs no command
C1_StartRefusedNoEffect ==
    [][ /\ \A u \in 1..Len(units) :
             units[u].pc = "guard" /\ units[u].snap # NotStarted /\ units'[u].pc # "guard"
             => /\ LoadedServices' = LoadedServices
                /\ execs' = execs
                /\ startErr'.svc = units[u].svc
                /\ startErr'.err = "Service " \o units[u].svc \o " is "
                                       \o RunStateString(units[u].snap)
        /\ ctl.pc = "guard" /\ ctl.snap # NotStarted /\ ctl'.pc # "guard"
             => /\ LoadedServices' = LoadedServices
                /\ execs' = execs
                /\ startErr'.svc = ctl.svc
                /\ startErr'.err = "Service " \o ctl.svc \o " is "
                                       \o RunStateString(ctl.snap) ]_vars

\* a Start refused on a Started record has returned, the record still Started
C1_Witness ==
    \E n \in Names :
        /\ startErr = [svc |-> n, run |-> NotRun, err |-> "Service " \o n \o " is already started"]
        /\ LoadedServices[n].State = Started
        /\ execs[n] = 1

C3_StartAfterMark ==
    \A n \in Names :
        /\ LoadedServices[n].State # NotStarted
        /\ \A u \in UnitsFor(n) : units[u].tries < MaxTries
        => \A i \in 1..Len(LoadedServices[n].Needs) :
               LoadedServices[n].Needs[i] \in startedTypes

\* a service with a need was started within its budget
C3_Witness ==
    \E n \in Names :
        /\ LoadedServices[n].Needs # <<>>
        /\ LoadedServices[n].State = Started
        /\ UnitsFor(n) # {}
        /\ \A u \in UnitsFor(n) : units[u].tries < MaxTries /\ units[u].tries > 1

\* C4: once StartServices has returned, every AutoStart service of a known type had
\* a launcher of its own and a start attempt, whatever it provides
C4_EveryAutoStartLaunched ==
    boot = "done" =>
        \A n \in Names :
            LoadedServices[n].AutoStart
            /\ LoadedServices[n].Type \in {"oneshot", "forking", "simple"}
            => /\ UnitsFor(n) # {}
               /\ \/ LoadedServices[n].State # NotStarted
                  \/ \E r \in 1..Len(runs) : runs[r].svc = n

\* C5: once StartServices has returned, the capability-mark step has run exactly
\* once for every service it launched
C5_MarkedOnce ==
    boot = "done" => \A n \in Names : UnitsFor(n) # {} => marks[n] = 1

\* C6: when the prober reports the service alive, CheckAndStartService returns the
\* already-running error (with the pid when there is one), runs no command, spawns
\* no goroutine and leaves the registry as it was
C6_AliveNotRestarted ==
    [][ ctl.pc = "probed" /\ ctl.res.err = NoError /\ ctl.res.alive /\ ctl' # ctl
        => /\ ctl'.pc = "idle"
           /\ ctlRet'.op = "CheckAndStart" /\ ctlRet'.svc = ctl.svc
           /\ ctlRet'.err =
                 IF ctl.res.pid # 0
                 THEN "process " \o ctl.svc \o " already running as PID "
                         \o ToString(ctl.res.pid)
                 ELSE "process " \o ctl.svc \o " already running"
           /\ LoadedServices' = LoadedServices
           /\ execs' = execs
           /\ runs' = runs ]_vars

\* the conflict was returned for pid 999 read from the PID file
C6_Witness ==
    \E n \in Names :
        /\ ctlRet.op = "CheckAndStart" /\ ctlRet.svc = n
        /\ ctlRet.err = "process " \o n \o " already running as PID 999"
        /\ ctl.pc = "idle"

\* C7: when the tracked process exits, with any exit code, the record becomes
\* Stopped with LastKnownPID 0, LastAction Stop and LastActionAt the current time
C7_ExitStampsStop ==
    [][ \A r \in 1..Len(runs) :
           runs[r].pc = "tracking" /\ runs'[r].pc = "done"
           => /\ LoadedServices'[runs[r].svc].State = Stopped
              /\ LoadedServices'[runs[r].svc].LastKnownPID = 0
              /\ LoadedServices'[runs[r].svc].LastAction = Stop
              /\ LoadedServices'[runs[r].svc].LastActionAt = now ]_vars

\* C8: a shutdown command that exits non-zero is no error: CheckAndStopService
\* returns nil and the record becomes Stopped; a command that could not be launched
\* is returned as the error and the record becomes Errored
C8_ShutdownExitCodeIgnored ==
    [][ ctl.pc = "shutdown" /\ ctl'.pc = "idle"
        => IF ctlRet'.run \in {NoError, "exit status 1"}
           THEN ctlRet'.err = NoError /\ LoadedServices'[ctl.svc].State = Stopped
           ELSE ctlRet'.err = ctlRet'.run /\ LoadedServices'[ctl.svc].State = Errored ]_vars

\* C9: for a service with no PIDFile and a CheckAlive command the prober answers
\* alive without error on exit code 0, not alive without error on a non-zero exit
\* code, and an error only when the command could not be run
C9_CheckAliveExitCode ==
    ctl.pc = "probed" /\ LoadedServices[ctl.svc].PIDFile = ""
    /\ LoadedServices[ctl.svc].CheckAlive # ""
    => CASE ctl.env.cmdErr = NoError -> ctl.res.alive /\ ctl.res.err = NoError
         [] ctl.env.cmdErr = "exit status 1" -> ~ctl.res.alive /\ ctl.res.err = NoError
         [] OTHER -> ctl.res.err # NoError

\* C10: a Start that passes its guard moves the record to Starting with LastAction
\* Start; when the command returns, the record is Started and Start returns nil if
\* the command returned no error or exactly one of the two no-child errors, and
\* else the record is Errored and Start returns the command's error; LastAction is
\* Start in both cases
C10_StartOutcome ==
    [][ /\ \A u \in 1..Len(units) :
             /\ units[u].pc = "guard" /\ units'[u].pc = "run"
                  => /\ units[u].snap = NotStarted
                     /\ LoadedServices'[units[u].svc].State = Starting
                     /\ LoadedServices'[units[u].svc].LastAction = Start
             /\ units[u].pc = "run" /\ units'[u].pc # "run"
                  => /\ startErr'.svc = units[u].svc
                     /\ LoadedServices'[units[u].svc].LastAction = Start
                     /\ IF startErr'.run \in {NoError, "wait: no child processes",
                                               "waitid: no child processes"}
                        THEN /\ LoadedServices'[units[u].svc].State = Started
                             /\ startErr'.err = NoError
                        ELSE /\ LoadedServices'[units[u].svc].State = Errored
                             /\ startErr'.err = startErr'.run
        /\ ctl.pc = "guard" /\ ctl'.pc = "run"
             => /\ ctl.snap = NotStarted
                /\ LoadedServices'[ctl.svc].State = Starting
                /\ LoadedServices'[ctl.svc].LastAction = Start
        /\ ctl.pc = "run" /\ ctl'.pc # "run"
             => /\ startErr'.svc = ctl.svc
                /\ LoadedServices'[ctl.svc].LastAction = Start
                /\ IF startErr'.run \in {NoError, "wait: no child processes",
                                          "waitid: no child processes"}
                   THEN /\ LoadedServices'[ctl.svc].State = Started
                        /\ startErr'.err = NoError
                   ELSE /\ LoadedServices'[ctl.svc].State = Errored
                        /\ startErr'.err = startErr'.run ]_vars

\* a forking Start whose wait met "waitid: no child processes" ended Started
C10_Witness ==
    \E n \in Names :
        /\ startErr = [svc |-> n, run |-> "waitid: no child processes", err |-> NoError]
        /\ LoadedServices[n].Type = "forking"
        /\ LoadedServices[n].State = Started
        /\ LoadedServices[n].LastAction = Start

\* C11: no step of the launchers, of Start, of StartSimple and its exit handling, of
\* CheckAndStartService or of CheckAndStopService takes a record from Started to
\* NotStarted
C11_StartedNeverToNotStarted ==
    [][ \A n \in Names :
           LoadedServices[n].State = Started => LoadedServices'[n].State # NotStarted ]_vars

\* the process of a simple service was tracked as Started and its exit was handled
C11_Witness ==
    \E r \in 1..Len(runs) :
        /\ runs[r].pc = "done" /\ runs[r].pid # 0
        /\ LoadedServices[runs[r].svc].State = Stopped
        /\ LoadedServices[runs[r].svc].LastKnownPID = 0

\* C12: a reload leaves the State and the LastAction of every loaded record as they
\* were and does not decrease its LastActionAt
C12_ReloadPreservesState ==
    [][ nops' = nops + 1 /\ ctlRet'.op = "Reload"
        => \A n \in Names :
              /\ LoadedServices'[n].State = LoadedServices[n].State
              /\ LoadedServices'[n].LastAction = LoadedServices[n].LastAction
              /\ LoadedServices'[n].LastActionAt >= LoadedServices[n].LastActionAt ]_vars

\* C13: for a service that is not simple and has neither PIDFile nor CheckAlive the
\* prober answers the error "cannot determine process state", and
\* CheckAndStartService returns that error, runs no command, spawns no goroutine and
\* leaves the registry as it was
C13_IndeterminateIsError ==
    [][ /\ ctl.pc = "probed" /\ ctl' # ctl
        /\ LoadedServices[ctl.svc].Type # "simple"
        /\ LoadedServices[ctl.svc].PIDFile = ""
        /\ LoadedServices[ctl.svc].CheckAlive = ""
        => /\ ctl.res.err = "cannot determine process state"
           /\ ctl'.pc = "idle"
           /\ ctlRet'.op = "CheckAndStart" /\ ctlRet'.svc = ctl.svc
           /\ ctlRet'.err = "cannot determine process state"
           /\ LoadedServices' = LoadedServices
           /\ execs' = execs
           /\ runs' = runs ]_vars

\* the error was returned for a forking service, which was never started
C13_Witness ==
    \E n \in Names :
        /\ ctlRet = [op |-> "CheckAndStart", svc |-> n, run |-> NotRun,
                     err |-> "cannot determine process state"]
        /\ LoadedServices[n].Type = "forking"
        /\ LoadedServices[n].State = NotStarted
        /\ execs[n] = 0

\* C14: CheckAndStopService stamps LastAction Stop and the current time on the record
\* as it is entered, and nothing it does afterwards touches the stamp; on a simple
\* service that is neither Starting nor Started it runs no command, makes the
\* record Stopped and returns the error that the process does not seem alive
C14_StopAlwaysStamps ==
    [][ /\ ctl.pc = "idle" /\ nops' = nops + 1
           /\ (ctl'.pc = "shutdown" \/ (ctl'.pc = "idle" /\ ctlRet'.op = "CheckAndStop"))
           => LET n == IF ctl'.pc = "shutdown" THEN ctl'.svc ELSE ctlRet'.svc
              IN  /\ LoadedServices'[n].LastAction = Stop
                  /\ LoadedServices'[n].LastActionAt = now
                  /\ LoadedServices[n].Type = "simple"
                     /\ LoadedServices[n].State \notin {Starting, Started}
                     => /\ ctl'.pc = "idle"
                        /\ execs' = execs
                        /\ LoadedServices'[n].State = Stopped
                        /\ ctlRet' = [op |-> "CheckAndStop", svc |-> n, run |-> NotRun,
                                      err |-> "process " \o n
                                                 \o " doesn't seems to be alive ?"]
        /\ ctl.pc = "shutdown" /\ ctl'.pc = "idle"
           => /\ LoadedServices'[ctl.svc].LastAction = LoadedServices[ctl.svc].LastAction
              /\ LoadedServices'[ctl.svc].LastActionAt
                    = LoadedServices[ctl.svc].LastActionAt ]_vars

\* CheckAndStopService was called twice on a simple service that was not running:
\* the record is Stopped and carries the stamp of the second call
C14_Witness ==
    \E n \in Names :
        /\ nops = 2 /\ now = 1
        /\ ctlRet = [op |-> "CheckAndStop", svc |-> n, run |-> NotRun,
                     err |-> "process " \o n \o " doesn't seems to be alive ?"]
        /\ LoadedServices[n].State = Stopped
        /\ LoadedServices[n].LastAction = Stop
        /\ LoadedServices[n].LastActionAt = 1
        /\ execs[n] = 0

C16_OneStartAtATime ==
    \A n \in Names :
        Cardinality({r \in 1..Len(runs) :
                        runs[r].svc = n /\ runs[r].pc \in {"launch", "tracking"}})
        + Cardinality({u \in UnitsFor(n) : units[u].pc = "run"})
        + (IF ctl.pc = "run" /\ ctl.svc = n THEN 1 ELSE 0) <= 1

\* C17: every capability in the started set is provided by a service whose start
\* was attempted (it has left NotStarted, or a StartSimple goroutine was spawned
\* for it), and the mark step never runs for a service that is not AutoStart
C17_MarkedOnlyIfAttempted ==
    /\ \A t \in startedTypes :
          \E n \in Names :
              /\ t \in Range(LoadedServices[n].Provides)
              /\ \/ LoadedServices[n].State # NotStarted
                 \/ \E r \in 1..Len(runs) : runs[r].svc = n
    /\ \A n \in Names : ~LoadedServices[n].AutoStart => marks[n] = 0

\* C18: when CheckAndStartService has called Start, it returns what Start returned,
\* and it returns nil only if the record is Started
C18_StartErrorReturned ==
    [][ ctl.pc \in {"guard", "run"} /\ ctl'.pc = "idle"
        => /\ ctlRet'.op = "CheckAndStart" /\ ctlRet'.svc = ctl.svc
           /\ startErr'.svc = ctl.svc
           /\ ctlRet'.err = startErr'.err
           /\ ctlRet'.err = NoError => LoadedServices'[ctl.svc].State = Started ]_vars

\* C19: a start of a record that is Stopped or Errored, dispatched by
\* CheckAndStartService once the prober said not alive, makes the record Starting
\* and runs its Startup command: through Start for a oneshot or forking service,
\* through a StartSimple goroutine for a simple one
C19_RestartFromTerminal ==
    [][ /\ ctl.pc = "guard" /\ ctl.snap \in {Stopped, Errored} /\ ctl' # ctl
           => /\ ctl'.pc = "run"
              /\ LoadedServices'[ctl.svc].State = Starting
              /\ execs'[ctl.svc] = execs[ctl.svc] + 1
        /\ \A r \in 1..Len(runs) :
              /\ runs[r].pc = "spawned" /\ runs'[r].pc # "spawned"
                 /\ LoadedServices[runs[r].svc].State \in {Stopped, Errored}
                 => LoadedServices'[runs[r].svc].State = Starting
              /\ runs[r].pc = "launch" /\ runs'[r].pc # "launch"
                 => execs'[runs[r].svc] = execs[runs[r].svc] + 1 ]_vars

\* C20: while a StartSimple goroutine tracks its process and no stop of the service
\* was requested since the goroutine was spawned, the record is Started and its
\* LastKnownPID is the pid of that process
C20_TrackedRunOwnsRecord ==
    \A r \in 1..Len(runs) :
        runs[r].pc = "tracking" /\ ~runs[r].stop
        => /\ LoadedServices[runs[r].svc].State = Started
           /\ LoadedServices[runs[r].svc].LastKnownPID = runs[r].pid

====
